---- MODULE Spec2Model ----
(***************************************************************************)
(* Model of the tyto tracker's in-memory stores (src/src/storage/mod.rs):  *)
(* the swarm registry PeerStore (a HashMap<String, Swarm> behind one tokio *)
(* RwLock), its Swarm sets, the random sampler PeerList::make_random and   *)
(* the statistics store TorrentStore (a HashMap<String, Torrent> behind    *)
(* its own RwLock); and of the announce handler (src/src/network.rs).      *)
(***************************************************************************)
EXTENDS Naturals, Integers, Sequences, FiniteSets, TLC

\* ------------------------------------------------------------------ bounds
\* largest numwant a caller asks for
MaxNumwant == 2
\* callers never register more than this many entries in the whole registry
MaxPeers == 2
\* callers make at most this many new_seed / new_leech calls
MaxCalls == 3
\* longest list of info-hashes a scrape asks for
MaxScrape == 2

\* ------------------------------------------------------------- data model
Hashes == {"A1B2", "C3D4"}

\* Peer identities: two IPv4 peers that share address and port but differ in
\* peer_id, and one IPv6 peer.
Identities ==
    { [fam |-> "V4", peer_id |-> "ABCD", ip |-> "127.0.0.1", port |-> "6893"],
      [fam |-> "V4", peer_id |-> "TSRQ", ip |-> "127.0.0.1", port |-> "6893"],
      [fam |-> "V6", peer_id |-> "ABCD", ip |-> "fe80::1", port |-> "6699"] }

\* last_announced: an earlier and a later instant
Times == {0, 1}

\* Peer::V4(Peerv4 {peer_id, ip, port, last_announced}) / Peer::V6(...)
Peer ==
    { [fam |-> i.fam, peer_id |-> i.peer_id, ip |-> i.ip, port |-> i.port,
       last_announced |-> t] : i \in Identities, t \in Times }

\* What Eq and Hash of Peer compare: everything but last_announced.
Ident(p) == [fam |-> p.fam, peer_id |-> p.peer_id, ip |-> p.ip, port |-> p.port]

PeerEq(p, q) == Ident(p) = Ident(q)

\* CompactPeer::V4(CompactPeerv4 {ip, port}) / CompactPeer::V6(...)
CompactPeer(p) == [fam |-> p.fam, ip |-> p.ip, port |-> p.port]

\* CompactPeerv4 / CompactPeerv6: the payload without the family tag
CompactAddr(c) == [ip |-> c.ip, port |-> c.port]

\* ----------------------------------------------------- HashSet<Peer> calls
HashSet_contains(set, peer) == \E q \in set : PeerEq(q, peer)

\* insert keeps the stored element when an equal one is present
HashSet_insert(set, peer) ==
    IF HashSet_contains(set, peer) THEN set ELSE set \cup {peer}

\* replace stores the given element in place of the equal one
HashSet_replace(set, peer) ==
    {q \in set : ~PeerEq(q, peer)} \cup {peer}

HashSet_remove(set, peer) == {q \in set : ~PeerEq(q, peer)}

\* take: the stored element equal to peer (when there is one)
HashSet_take(set, peer) == CHOOSE q \in set : PeerEq(q, peer)

\* A set is a HashSet<Peer> when no two stored elements are equal.
IsHashSet(set) == \A p, q \in set : PeerEq(p, q) => p = q

\* ------------------------------------------------------------------ Swarm
Swarm_new == [seeders |-> {}, leechers |-> {}]

Swarm_add_seeder(sw, peer) ==
    [sw EXCEPT !.seeders = HashSet_insert(sw.seeders, peer)]

Swarm_add_leecher(sw, peer) ==
    [sw EXCEPT !.leechers = HashSet_insert(sw.leechers, peer)]

\* mutant: the record is replaced without asking whether the set holds it
Swarm_update_seeder_unchecked(sw, peer) ==
    [sw EXCEPT !.seeders = HashSet_replace(sw.seeders, peer)]

Swarm_update_seeder(sw, peer) ==
    IF HashSet_contains(sw.seeders, peer)
    THEN [sw EXCEPT !.seeders = HashSet_replace(sw.seeders, peer)]
    ELSE sw

Swarm_update_leecher(sw, peer) ==
    IF HashSet_contains(sw.leechers, peer)
    THEN [sw EXCEPT !.leechers = HashSet_replace(sw.leechers, peer)]
    ELSE sw

\* the swarm after the call, and the bool it returns
Swarm_remove_seeder(sw, peer) ==
    [swarm  |-> [sw EXCEPT !.seeders = HashSet_remove(sw.seeders, peer)],
     result |-> HashSet_contains(sw.seeders, peer)]

Swarm_remove_leecher(sw, peer) ==
    [swarm  |-> [sw EXCEPT !.leechers = HashSet_remove(sw.leechers, peer)],
     result |-> HashSet_contains(sw.leechers, peer)]

\* mutant: the leecher is looked up (get) instead of taken out of the set
Swarm_promote_leecher_get(sw, peer) ==
    IF HashSet_contains(sw.leechers, peer)
    THEN [sw EXCEPT !.seeders =
             HashSet_insert(sw.seeders, HashSet_take(sw.leechers, peer))]
    ELSE [sw EXCEPT !.seeders = HashSet_insert(sw.seeders, peer)]

\* mutant: the None arm inserts into the leechers
Swarm_promote_leecher_wrong_set(sw, peer) ==
    IF HashSet_contains(sw.leechers, peer)
    THEN [seeders  |-> HashSet_insert(sw.seeders, HashSet_take(sw.leechers, peer)),
          leechers |-> HashSet_remove(sw.leechers, peer)]
    ELSE [sw EXCEPT !.leechers = HashSet_insert(sw.leechers, peer)]

Swarm_promote_leecher(sw, peer) ==
    IF HashSet_contains(sw.leechers, peer)
    THEN [seeders  |-> HashSet_insert(sw.seeders, HashSet_take(sw.leechers, peer)),
          leechers |-> HashSet_remove(sw.leechers, peer)]
    ELSE [sw EXCEPT !.seeders = HashSet_insert(sw.seeders, peer)]

\* -------------------------------------------------------------- PeerStore
\* PeerRecords = HashMap<String, Swarm>: a function on the known hashes.
PeerStore_new == <<>>

HashMap_insert(store, info_hash, sw) ==
    [h \in (DOMAIN store) \cup {info_hash} |->
        IF h = info_hash THEN sw ELSE store[h]]

put_seeder(store, info_hash, peer) ==
    IF info_hash \in DOMAIN store
    THEN [store EXCEPT ![info_hash] = Swarm_add_seeder(@, peer)]
    ELSE HashMap_insert(store, info_hash, Swarm_add_seeder(Swarm_new, peer))

\* mutant: the swarm is always built afresh and inserted over the old one
put_leecher_overwrites(store, info_hash, peer) ==
    HashMap_insert(store, info_hash, Swarm_add_leecher(Swarm_new, peer))

put_leecher(store, info_hash, peer) ==
    IF info_hash \in DOMAIN store
    THEN [store EXCEPT ![info_hash] = Swarm_add_leecher(@, peer)]
    ELSE HashMap_insert(store, info_hash, Swarm_add_leecher(Swarm_new, peer))

\* mutant: an unknown hash gets a fresh swarm, as in put_seeder
remove_seeder_creates(store, info_hash, peer) ==
    IF info_hash \in DOMAIN store
    THEN [store  |-> [store EXCEPT ![info_hash] = Swarm_remove_seeder(@, peer).swarm],
          result |-> Swarm_remove_seeder(store[info_hash], peer).result]
    ELSE [store |-> HashMap_insert(store, info_hash, Swarm_new), result |-> FALSE]

\* the store after the call, and the bool it returns
remove_seeder(store, info_hash, peer) ==
    IF info_hash \in DOMAIN store
    THEN [store  |-> [store EXCEPT ![info_hash] = Swarm_remove_seeder(@, peer).swarm],
          result |-> Swarm_remove_seeder(store[info_hash], peer).result]
    ELSE [store |-> store, result |-> FALSE]

\* mutant: a swarm that the removal leaves without peers is dropped
remove_leecher_evicts(store, info_hash, peer) ==
    IF info_hash \in DOMAIN store
    THEN [store  |->
             IF Swarm_remove_leecher(store[info_hash], peer).swarm = Swarm_new
             THEN [h \in (DOMAIN store) \ {info_hash} |-> store[h]]
             ELSE [store EXCEPT ![info_hash] = Swarm_remove_leecher(@, peer).swarm],
          result |-> Swarm_remove_leecher(store[info_hash], peer).result]
    ELSE [store |-> store, result |-> FALSE]

remove_leecher(store, info_hash, peer) ==
    IF info_hash \in DOMAIN store
    THEN [store  |-> [store EXCEPT ![info_hash] = Swarm_remove_leecher(@, peer).swarm],
          result |-> Swarm_remove_leecher(store[info_hash], peer).result]
    ELSE [store |-> store, result |-> FALSE]

\* mutant: an unknown hash gets a swarm, as in put_seeder
promote_leecher_creates(store, info_hash, peer) ==
    IF info_hash \in DOMAIN store
    THEN [store EXCEPT ![info_hash] = Swarm_promote_leecher(@, peer)]
    ELSE HashMap_insert(store, info_hash, Swarm_promote_leecher(Swarm_new, peer))

promote_leecher(store, info_hash, peer) ==
    IF info_hash \in DOMAIN store
    THEN [store EXCEPT ![info_hash] = Swarm_promote_leecher(@, peer)]
    ELSE store

update_peer(store, info_hash, peer) ==
    IF info_hash \in DOMAIN store
    THEN [store EXCEPT ![info_hash] =
             Swarm_update_leecher(Swarm_update_seeder(@, peer), peer)]
    ELSE store

\* --------------------------------------------------------------- PeerList
\* The orders in which iterating a HashSet can yield its elements.
Orders(S) ==
    {s \in [1..Cardinality(S) -> S] :
        \A i, j \in 1..Cardinality(S) : i # j => s[i] # s[j]}

\* slice::shuffle: every rearrangement of the list
Shuffles(list) ==
    {[i \in 1..Len(list) |-> list[f[i]]] : f \in Orders(1..Len(list))}

\* Vec::truncate
Truncate(list, n) == IF Len(list) > n THEN SubSeq(list, 1, n) ELSE list

\* mutant: the comparison is turned around
make_random_flipped(list, numwant) ==
    IF Len(list) < numwant
    THEN {Truncate(s, numwant) : s \in Shuffles(list)}
    ELSE {list}

\* PeerList::make_random: the lists the call can leave in self.0
make_random(list, numwant) ==
    IF Len(list) > numwant
    THEN {Truncate(s, numwant) : s \in Shuffles(list)}
    ELSE {list}

\* sw.seeders.iter().map(..).collect() in one iteration order
CompactList(order) == [i \in 1..Len(order) |-> CompactPeer(order[i])]

IsV4(c) == c.fam = "V4"

IsV6(c) == c.fam = "V6"

AddrList(list) == [i \in 1..Len(list) |-> CompactAddr(list[i])]

\* the drain loop: peers by protocol version, in list order
Partition(list) ==
    [peers  |-> AddrList(SelectSeq(list, IsV4)),
     peers6 |-> AddrList(SelectSeq(list, IsV6))]

\* peer_list before sampling: seeds then leeches, each in an iteration order
PeerLists(store, info_hash) ==
    IF info_hash \in DOMAIN store
    THEN {CompactList(os) \o CompactList(ol) :
             os \in Orders(store[info_hash].seeders),
             ol \in Orders(store[info_hash].leechers)}
    ELSE {<<>>}

\* PeerStore::get_peers: the pairs (peers, peers6) the call can return
get_peers(store, info_hash, numwant) ==
    {Partition(l) :
        l \in UNION {make_random(pl, numwant) : pl \in PeerLists(store, info_hash)}}

\* ----------------------------------------------------------- TorrentStore
\* The counters are u32; the callers stay far below u32::MAX (see MaxCalls),
\* so += 1 is written without its wrap-around.
\* Torrent::new
Torrent_new(info_hash, complete, downloaded, incomplete, balance) ==
    [info_hash |-> info_hash, complete |-> complete, downloaded |-> downloaded,
     incomplete |-> incomplete, balance |-> balance]

\* u32::saturating_sub(1)
saturating_sub_1(x) == IF x = 0 THEN 0 ELSE x - 1

\* the record new_seed leaves: t.complete += 1; t.incomplete saturating - 1
Torrent_new_seed(t) ==
    [t EXCEPT !.complete = @ + 1, !.incomplete = saturating_sub_1(@)]

\* the record new_leech leaves: t.incomplete += 1
Torrent_new_leech(t) == [t EXCEPT !.incomplete = @ + 1]

\* TorrentRecords = HashMap<String, Torrent>: a function on the hashes that
\* have a record.
TorrentStore_default == <<>>

\* ScrapeFile {info_hash, complete, downloaded, incomplete, name: None}
ScrapeFile(info_hash, t) ==
    [info_hash |-> info_hash, complete |-> t.complete,
     downloaded |-> t.downloaded, incomplete |-> t.incomplete, name |-> "None"]

\* mutant: a hash without a record is answered with a zero entry
RECURSIVE get_scrapes_zero_entry(_, _)
get_scrapes_zero_entry(store, info_hashes) ==
    IF info_hashes = <<>> THEN <<>>
    ELSE (IF Head(info_hashes) \in DOMAIN store
          THEN <<ScrapeFile(Head(info_hashes), store[Head(info_hashes)])>>
          ELSE <<ScrapeFile(Head(info_hashes),
                            Torrent_new(Head(info_hashes), 0, 0, 0, 0))>>)
         \o get_scrapes_zero_entry(store, Tail(info_hashes))

\* TorrentStore::get_scrapes: the for loop over info_hashes
RECURSIVE get_scrapes(_, _)
get_scrapes(store, info_hashes) ==
    IF info_hashes = <<>> THEN <<>>
    ELSE (IF Head(info_hashes) \in DOMAIN store
          THEN <<ScrapeFile(Head(info_hashes), store[Head(info_hashes)])>>
          ELSE <<>>)
         \o get_scrapes(store, Tail(info_hashes))

\* TorrentStore::get_announce_stats: (complete, incomplete)
get_announce_stats(store, info_hash) ==
    IF info_hash \in DOMAIN store
    THEN <<store[info_hash].complete, store[info_hash].incomplete>>
    ELSE <<0, 0>>

\* torrents.get_mut(&info_hash) in new_seed / new_leech: the record the body
\* works on, when there is one
get_mut(store, info_hash) ==
    IF info_hash \in DOMAIN store
    THEN [some |-> TRUE, t |-> store[info_hash]]
    ELSE [some |-> FALSE]

\* the store once the body has written the record back
new_seed(store, info_hash, found) ==
    IF found.some
    THEN [store EXCEPT ![info_hash] = Torrent_new_seed(found.t)]
    ELSE store

\* mutant: a hash without a record gets one (entry().or_insert)
new_leech_creates(store, info_hash, found) ==
    IF found.some
    THEN [store EXCEPT ![info_hash] = Torrent_new_leech(found.t)]
    ELSE [h \in (DOMAIN store) \cup {info_hash} |->
             IF h = info_hash THEN Torrent_new(info_hash, 0, 0, 1, 0)
             ELSE store[h]]

new_leech(store, info_hash, found) ==
    IF found.some
    THEN [store EXCEPT ![info_hash] = Torrent_new_leech(found.t)]
    ELSE store

\* ------------------------------------------------- the announce handler
\* const INTERVAL: u32
INTERVAL == 60

\* the info_hash values a query string can carry: a well-formed hash, none,
\* or one of the wrong length
QueryHashes == Hashes \cup {"", "A1"}

\* the text of the left field: a number, or something that is not one
QueryLefts == {"0", "1", "x"}

Events == {"started", "completed", "stopped", "none"}

\* str::parse::<u64> on the text of an integer field
ParseInt(text) ==
    CASE text = "0" -> [ok |-> TRUE, value |-> 0]
      [] text = "1" -> [ok |-> TRUE, value |-> 1]
      [] OTHER -> [ok |-> FALSE]

\* the failure variant of AnnounceResponse
Failure(reason) == [failure_reason |-> reason]

\* AnnounceRequest::new(query_string, remote): Err(failure) when a required
\* field is missing or does not parse, Ok(parsed request) otherwise, the
\* peer's address being the remote address with the declared port
AnnounceRequest_new(req) ==
    IF req.info_hash \notin Hashes \/ ~ParseInt(req.left).ok
    THEN [ok |-> FALSE, failure |-> Failure("Malformed request")]
    ELSE [ok |-> TRUE,
          info_hash |-> req.info_hash,
          peer |-> [fam |-> req.remote.fam, peer_id |-> req.peer_id,
                    ip |-> req.remote.ip, port |-> req.port],
          left |-> ParseInt(req.left).value,
          event |-> req.event,
          numwant |-> req.numwant]

\* AnnounceResponse::new(interval, complete, incomplete, peers, peers6)
AnnounceResponse_new(interval, complete, incomplete, peers, peers6) ==
    [interval |-> interval, complete |-> complete, incomplete |-> incomplete,
     tracker_id |-> "", peers |-> peers, peers6 |-> peers6]

\* bencode::encode_announce_response: the dictionary that is encoded, one key
\* for each field of the response
encode_announce_response(response) == [k \in DOMAIN response |-> response[k]]

\* HttpResponse::Ok().content_type("text/plain").body(bencoded)
HttpResponse_Ok(body) ==
    [kind |-> "http", status |-> 200, content_type |-> "text/plain",
     body |-> body]

\* the order of the compact addresses under Ord
AddrOrder ==
    <<[ip |-> "127.0.0.1", port |-> "6893"], [ip |-> "fe80::1", port |-> "6699"]>>

AddrRank(a) == CHOOSE i \in 1..Len(AddrOrder) : AddrOrder[i] = a

\* peers.sort()
Sort(list) ==
    CHOOSE s \in Shuffles(list) :
        \A i, j \in 1..Len(s) : i < j => AddrRank(s[i]) <= AddrRank(s[j])

\* mutant: the Err arm answers with a server error status
parse_announce_err_status(store, req) ==
    LET parsed == AnnounceRequest_new(req)
    IN  IF parsed.ok
        THEN {[store |-> store,
               response |-> HttpResponse_Ok(encode_announce_response(
                   AnnounceResponse_new(INTERVAL, 100, 23,
                                        Sort(pl.peers), Sort(pl.peers6))))] :
                 pl \in get_peers(store, parsed.info_hash, parsed.numwant)}
        ELSE {[store |-> store,
               response |-> [HttpResponse_Ok(encode_announce_response(
                                parsed.failure)) EXCEPT !.status = 500]]}

\* parse_announce: the registry it leaves and the response it gives
parse_announce(store, req) ==
    LET parsed == AnnounceRequest_new(req)
    IN  IF parsed.ok
        THEN {[store |-> store,
               response |-> HttpResponse_Ok(encode_announce_response(
                   AnnounceResponse_new(INTERVAL, 100, 23,
                                        Sort(pl.peers), Sort(pl.peers6))))] :
                 pl \in get_peers(store, parsed.info_hash, parsed.numwant)}
        ELSE {[store |-> store,
               response |-> HttpResponse_Ok(encode_announce_response(
                                parsed.failure))]}

\* ------------------------------------------------------------ the callers
Numwants == 0..MaxNumwant

\* the request-handling tasks that share the store
Tasks == {"t1", "t2"}

NoPeer == [fam |-> "none"]

Call(op, h, p, n) == [op |-> op, info_hash |-> h, peer |-> p, numwant |-> n]

NoCall == Call("none", "", NoPeer, 0)

Unit == [kind |-> "unit"]

Bool(b) == [kind |-> "bool", removed |-> b]

Peers(r) == [kind |-> "peers", peers |-> r.peers, peers6 |-> r.peers6]

PeerOps ==
    {"put_seeder", "put_leecher", "remove_seeder", "remove_leecher",
     "promote_leecher", "update_peer"}

\* the TorrentStore methods: the first two take torrents.write(), the others
\* torrents.read()
StatWriteOps == {"new_seed", "new_leech"}

StatReadOps == {"get_scrapes", "get_announce_stats"}

StatOps == StatWriteOps \cup StatReadOps

\* the calls that can add an entry to the registry
GrowOps == {"put_seeder", "put_leecher", "promote_leecher"}

\* the calls a task can make on the hashes HS with peers drawn from PS
Calls(HS, PS) ==
    {Call(op, h, p, 0) : op \in PeerOps, h \in HS, p \in PS}
        \cup {Call("get_peers", h, NoPeer, n) : h \in HS, n \in Numwants}

SwarmSize(sw) == Cardinality(sw.seeders) + Cardinality(sw.leechers)

RECURSIVE SumSizes(_, _)
SumSizes(store, hs) ==
    IF hs = {} THEN 0
    ELSE LET h == CHOOSE x \in hs : TRUE
         IN  SwarmSize(store[h]) + SumSizes(store, hs \ {h})

RegistrySize(store) == SumSizes(store, DOMAIN store)

VARIABLES
    records,   \* PeerStore.records: the HashMap behind the RwLock
    pc,        \* per task: "idle", "wait" (queued for the lock), "held" (inside
               \* the call, holding its guard), "done" (the call has returned)
    call,      \* per task: the call it is making, with its arguments
    result,    \* per task: what its call returned
    waitq,     \* the RwLock's FIFO queue of waiting tasks
    settled,   \* history: the <<info_hash, identity>> pairs whose put_seeder or
               \* put_leecher has returned with no remove of them called since
    torrents,  \* TorrentStore.torrents: the HashMap behind its own RwLock
    swaitq,    \* the FIFO queue of the tasks waiting for the TorrentStore lock
    found,     \* per task: what get_mut gave the new_seed / new_leech it is in
    applied,   \* history: per info-hash, the new_seed / new_leech calls whose
               \* body has run, in the order they ran
    initial,   \* history: the records the TorrentStore was constructed with
    owed       \* per task: the statistics call still to make for the registry
               \* call it made last

vars ==
    <<records, pc, call, result, waitq, settled,
      torrents, swaitq, found, applied, initial, owed>>

\* the statistics store and its callers' state
statvars == <<torrents, swaitq, found, applied, initial, owed>>

NoApplied == [seed |-> 0, leech |-> 0]

\* the new_seed / new_leech calls applied to the records of the hashes hs
RECURSIVE SumCalls(_)
SumCalls(hs) ==
    IF hs = {} THEN 0
    ELSE LET h == CHOOSE x \in hs : TRUE
         IN  applied[h].seed + applied[h].leech + SumCalls(hs \ {h})

\* a task that is not between the get_mut and the write of a statistics call
NoRecord == [some |-> FALSE, none |-> TRUE]

\* ------------------------------------------------- tokio::sync::RwLock
\* self.records.read() is taken by get_peers only, write() by all the others
IsRead(c) == c.op = "get_peers"

\* the tasks holding a guard of the registry lock
Holders == {t \in Tasks : pc[t] = "held" /\ call[t].op \notin StatOps}

\* mutant: write() hands out its guard beside the guards already out
Compatible_shared_write(c) == \A u \in Holders : call[u].op \notin StatOps

\* mutant: a Mutex in place of the RwLock
Compatible_mutex(c) == Holders = {}

\* a read guard is granted beside other read guards, a write guard alone
Compatible(c) ==
    IF IsRead(c) THEN \A u \in Holders : IsRead(call[u]) ELSE Holders = {}

\* the lock is fair: a new request is granted at once only when nobody queues
GrantedAtOnce(c) == waitq = <<>> /\ Compatible(c)

\* the calls in flight that may still add an entry
Growing == {t \in Tasks : pc[t] \in {"wait", "held"} /\ call[t].op \in GrowOps}

\* the registry as a grow call would leave it if it ran now
GrownNow(c) ==
    CASE c.op = "put_seeder" -> put_seeder(records, c.info_hash, c.peer)
      [] c.op = "put_leecher" -> put_leecher(records, c.info_hash, c.peer)
      [] c.op = "promote_leecher" -> promote_leecher(records, c.info_hash, c.peer)

\* callers keep the registry within MaxPeers entries
HasRoom(c) ==
    c.op \in GrowOps =>
        RegistrySize(GrownNow(c)) + Cardinality(Growing) <= MaxPeers

Init ==
    /\ records = PeerStore_new
    /\ pc = [t \in Tasks |-> "idle"]
    /\ call = [t \in Tasks |-> NoCall]
    /\ result = [t \in Tasks |-> Unit]
    /\ waitq = <<>>
    /\ settled = {}
    /\ torrents = TorrentStore_default
    /\ swaitq = <<>>
    /\ found = [t \in Tasks |-> NoRecord]
    /\ applied = [h \in Hashes |-> NoApplied]
    /\ initial = TorrentStore_default
    /\ owed = [t \in Tasks |-> NoCall]

RemoveOps == {"remove_seeder", "remove_leecher"}

PutOps == {"put_seeder", "put_leecher"}

Key(c) == <<c.info_hash, Ident(c.peer)>>

\* the removes of c's peer from c's hash that have been called and not returned
RemovesInFlight(c) ==
    {u \in Tasks : /\ pc[u] \in {"wait", "held"}
                   /\ call[u].op \in RemoveOps
                   /\ Key(call[u]) = Key(c)}

\* a task enters a PeerStore method and reaches its read().await / write().await
Invoke(t, c) ==
    /\ pc[t] = "idle"
    /\ HasRoom(c)
    /\ call' = [call EXCEPT ![t] = c]
    /\ IF GrantedAtOnce(c)
       THEN pc' = [pc EXCEPT ![t] = "held"] /\ waitq' = waitq
       ELSE pc' = [pc EXCEPT ![t] = "wait"] /\ waitq' = Append(waitq, t)
    /\ UNCHANGED <<records, result>>

\* the longest prefix of the queue q made of tasks waiting for a read guard
RECURSIVE ReadersPrefix(_)
ReadersPrefix(q) ==
    IF q # <<>> /\ IsRead(call[Head(q)])
    THEN <<Head(q)>> \o ReadersPrefix(Tail(q))
    ELSE <<>>

\* mutant: a dropped guard wakes nobody
Granted_lost_wakeup(t) == <<>>

\* the waiting tasks the lock hands its guards to when task t drops its own:
\* the readers at the head of the queue, or the writer at its head once no
\* guard is left
Granted(t) ==
    IF waitq = <<>> THEN <<>>
    ELSE IF IsRead(call[Head(waitq)]) THEN ReadersPrefix(waitq)
    ELSE IF Holders \ {t} = {} THEN <<Head(waitq)>>
    ELSE <<>>

\* the body of a method under its guard, up to its return, where the guard
\* drops and the lock passes to the tasks it has queued
Body(t, op, store, ret) ==
    /\ pc[t] = "held"
    /\ call[t].op = op
    /\ records' = store
    /\ result' = [result EXCEPT ![t] = ret]
    /\ pc' = [u \in Tasks |->
                 IF u = t THEN "done"
                 ELSE IF \E i \in 1..Len(Granted(t)) : Granted(t)[i] = u THEN "held"
                 ELSE pc[u]]
    /\ waitq' = SubSeq(waitq, Len(Granted(t)) + 1, Len(waitq))
    /\ UNCHANGED call

PutSeeder(t) ==
    Body(t, "put_seeder",
         put_seeder(records, call[t].info_hash, call[t].peer), Unit)

PutLeecher(t) ==
    Body(t, "put_leecher",
         put_leecher(records, call[t].info_hash, call[t].peer), Unit)

RemoveSeeder(t) ==
    Body(t, "remove_seeder",
         remove_seeder(records, call[t].info_hash, call[t].peer).store,
         Bool(remove_seeder(records, call[t].info_hash, call[t].peer).result))

RemoveLeecher(t) ==
    Body(t, "remove_leecher",
         remove_leecher(records, call[t].info_hash, call[t].peer).store,
         Bool(remove_leecher(records, call[t].info_hash, call[t].peer).result))

PromoteLeecher(t) ==
    Body(t, "promote_leecher",
         promote_leecher(records, call[t].info_hash, call[t].peer), Unit)

UpdatePeer(t) ==
    Body(t, "update_peer",
         update_peer(records, call[t].info_hash, call[t].peer), Unit)

\* mutant: the swarm is looked up with entry().or_insert under a write guard
GetPeers_inserts(t) ==
    \E r \in get_peers(records, call[t].info_hash, call[t].numwant) :
        Body(t, "get_peers",
             IF call[t].info_hash \in DOMAIN records
             THEN records
             ELSE HashMap_insert(records, call[t].info_hash, Swarm_new),
             Peers(r))

GetPeers(t) ==
    \E r \in get_peers(records, call[t].info_hash, call[t].numwant) :
        Body(t, "get_peers", records, Peers(r))

\* the caller takes the returned value and is ready for its next request
Return(t) ==
    /\ pc[t] = "done"
    /\ pc' = [pc EXCEPT ![t] = "idle"]
    /\ call' = [call EXCEPT ![t] = NoCall]
    /\ result' = [result EXCEPT ![t] = Unit]
    /\ UNCHANGED <<records, waitq>>

\* ------------------------------------- the TorrentStore and its RwLock
ScrapeCall(info_hashes) == [op |-> "get_scrapes", info_hashes |-> info_hashes]

Scrapes(files) == [kind |-> "scrapes", files |-> files]

Stats(pair) == [kind |-> "stats", complete |-> pair[1], incomplete |-> pair[2]]

\* the lists of info-hashes a scrape asks for
ScrapeLists == UNION {[1..n -> Hashes] : n \in 0..MaxScrape}

StatCalls ==
    {Call(op, h, NoPeer, 0) : op \in StatWriteOps \cup {"get_announce_stats"},
                             h \in Hashes}
        \cup {ScrapeCall(l) : l \in ScrapeLists}

IsStatRead(c) == c.op \in StatReadOps

\* the tasks holding a guard of the TorrentStore lock
StatHolders == {t \in Tasks : pc[t] = "held" /\ call[t].op \in StatOps}

\* mutant: new_seed / new_leech take torrents.read() and share the lock
StatCompatible_read_guard(c) == \A u \in StatHolders : call[u].op \in StatOps

StatCompatible(c) ==
    IF IsStatRead(c) THEN \A u \in StatHolders : IsStatRead(call[u])
    ELSE StatHolders = {}

\* the new_seed / new_leech calls that have been made so far
CallsMade ==
    Cardinality({t \in Tasks : pc[t] \in {"wait", "held"}
                                  /\ call[t].op \in StatWriteOps})
        + SumCalls(Hashes)

\* a task enters a TorrentStore method and reaches its read().await /
\* write().await
StatInvoke(t, c) ==
    /\ pc[t] = "idle"
    /\ c.op \in StatWriteOps => CallsMade < MaxCalls
    /\ call' = [call EXCEPT ![t] = c]
    /\ IF swaitq = <<>> /\ StatCompatible(c)
       THEN pc' = [pc EXCEPT ![t] = "held"] /\ swaitq' = swaitq
       ELSE pc' = [pc EXCEPT ![t] = "wait"] /\ swaitq' = Append(swaitq, t)
    /\ UNCHANGED <<records, result, waitq, settled, torrents, found, applied,
                   initial>>

RECURSIVE StatReadersPrefix(_)
StatReadersPrefix(q) ==
    IF q # <<>> /\ IsStatRead(call[Head(q)])
    THEN <<Head(q)>> \o StatReadersPrefix(Tail(q))
    ELSE <<>>

\* the waiting tasks the TorrentStore lock hands its guards to when task t
\* drops its own
StatGranted(t) ==
    IF swaitq = <<>> THEN <<>>
    ELSE IF IsStatRead(call[Head(swaitq)]) THEN StatReadersPrefix(swaitq)
    ELSE IF StatHolders \ {t} = {} THEN <<Head(swaitq)>>
    ELSE <<>>

\* new_seed / new_leech under the write guard: the lookup of the record
GetMut(t) ==
    /\ pc[t] = "held"
    /\ call[t].op \in StatWriteOps
    /\ found[t] = NoRecord
    /\ found' = [found EXCEPT ![t] = get_mut(torrents, call[t].info_hash)]
    /\ UNCHANGED <<records, pc, call, result, waitq, settled, torrents, swaitq,
                   applied, initial, owed>>

\* the rest of a TorrentStore method under its guard, up to its return, where
\* the guard drops and the lock passes to the tasks it has queued
StatBody(t, op, store, ret) ==
    /\ pc[t] = "held"
    /\ call[t].op = op
    /\ torrents' = store
    /\ result' = [result EXCEPT ![t] = ret]
    /\ pc' = [u \in Tasks |->
                 IF u = t THEN "done"
                 ELSE IF \E i \in 1..Len(StatGranted(t)) : StatGranted(t)[i] = u
                      THEN "held"
                 ELSE pc[u]]
    /\ swaitq' = SubSeq(swaitq, Len(StatGranted(t)) + 1, Len(swaitq))
    /\ UNCHANGED <<records, call, waitq, settled, initial, owed>>

\* the history of a write: one more call of kind k applied to the record
Applied(t, k) ==
    IF found[t].some
    THEN [applied EXCEPT ![call[t].info_hash][k] = @ + 1]
    ELSE applied

NewSeed(t) ==
    /\ found[t] # NoRecord
    /\ StatBody(t, "new_seed",
                new_seed(torrents, call[t].info_hash, found[t]), Unit)
    /\ found' = [found EXCEPT ![t] = NoRecord]
    /\ applied' = Applied(t, "seed")

NewLeech(t) ==
    /\ found[t] # NoRecord
    /\ StatBody(t, "new_leech",
                new_leech(torrents, call[t].info_hash, found[t]), Unit)
    /\ found' = [found EXCEPT ![t] = NoRecord]
    /\ applied' = Applied(t, "leech")

GetScrapes(t) ==
    /\ StatBody(t, "get_scrapes", torrents,
                Scrapes(get_scrapes(torrents, call[t].info_hashes)))
    /\ UNCHANGED <<found, applied>>

GetAnnounceStats(t) ==
    /\ StatBody(t, "get_announce_stats", torrents,
                Stats(get_announce_stats(torrents, call[t].info_hash)))
    /\ UNCHANGED <<found, applied>>

\* the history a step leaves: a remove that is called unsettles its peer, a
\* put that returns settles its peer unless a remove of it is in flight
HistNext ==
    /\ settled' =
        (settled \ {Key(call'[u]) : u \in {x \in Tasks :
                        pc[x] = "idle" /\ pc'[x] # "idle" /\ call'[x].op \in RemoveOps}})
            \cup {Key(call[u]) : u \in {x \in Tasks :
                        /\ pc[x] = "held" /\ pc'[x] = "done"
                        /\ call[x].op \in PutOps
                        /\ RemovesInFlight(call[x]) = {}}}
    /\ UNCHANGED statvars

NoHist == UNCHANGED <<settled, statvars>>

\* one task at a time uses the store: every call runs from entry to return
\* before the next one starts
Next ==
    \/ (\E c \in Calls(Hashes, Peer) : Invoke("t1", c)) /\ NoHist
    \/ PutSeeder("t1") /\ NoHist
    \/ PutLeecher("t1") /\ NoHist
    \/ RemoveSeeder("t1") /\ NoHist
    \/ RemoveLeecher("t1") /\ NoHist
    \/ PromoteLeecher("t1") /\ NoHist
    \/ UpdatePeer("t1") /\ NoHist
    \/ GetPeers("t1") /\ NoHist
    \/ Return("t1") /\ NoHist

Spec == Init /\ [][Next]_vars

\* the peers the concurrent tasks announce: one IPv4 and one IPv6 identity
ConcPeers == {p \in Peer : p.peer_id = "ABCD" /\ p.last_announced = 0}

\* the tasks run concurrently: their calls interleave at the lock
NextConc ==
    \E t \in Tasks :
        \/ (\E c \in Calls(Hashes, ConcPeers) : Invoke(t, c)) /\ NoHist
        \/ PutSeeder(t) /\ NoHist
        \/ PutLeecher(t) /\ NoHist
        \/ RemoveSeeder(t) /\ NoHist
        \/ RemoveLeecher(t) /\ NoHist
        \/ PromoteLeecher(t) /\ NoHist
        \/ UpdatePeer(t) /\ NoHist
        \/ GetPeers(t) /\ NoHist
        \/ Return(t) /\ NoHist

SpecConc == Init /\ [][NextConc]_vars

\* the hash whose history of settled puts is kept
HistHashes == {"A1B2"}

\* the concurrent tasks on one info-hash, with the history of settled puts
NextHist ==
    \E t \in Tasks :
        \/ (\E c \in Calls(HistHashes, ConcPeers) : Invoke(t, c)) /\ HistNext
        \/ PutSeeder(t) /\ HistNext
        \/ PutLeecher(t) /\ HistNext
        \/ RemoveSeeder(t) /\ HistNext
        \/ RemoveLeecher(t) /\ HistNext
        \/ PromoteLeecher(t) /\ HistNext
        \/ UpdatePeer(t) /\ HistNext
        \/ GetPeers(t) /\ HistNext
        \/ Return(t) /\ HistNext

SpecHist == Init /\ [][NextHist]_vars

\* the incomplete values a record is constructed with
Counts == {0, 1}

\* the TorrentRecords handed to TorrentStore::new: for some of the hashes, a
\* record with one seeder, two completed downloads and no or one leecher
InitialTorrents ==
    UNION {{[h \in hs |-> Torrent_new(h, 1, 2, f[h], 0)] : f \in [hs -> Counts]} :
              hs \in SUBSET Hashes}

InitStats ==
    /\ records = PeerStore_new
    /\ pc = [t \in Tasks |-> "idle"]
    /\ call = [t \in Tasks |-> NoCall]
    /\ result = [t \in Tasks |-> Unit]
    /\ waitq = <<>>
    /\ settled = {}
    /\ torrents \in InitialTorrents
    /\ swaitq = <<>>
    /\ found = [t \in Tasks |-> NoRecord]
    /\ applied = [h \in Hashes |-> NoApplied]
    /\ initial = torrents
    /\ owed = [t \in Tasks |-> NoCall]

\* concurrent tasks calling the TorrentStore
NextStats ==
    \E t \in Tasks :
        \/ (\E c \in StatCalls : StatInvoke(t, c)) /\ UNCHANGED owed
        \/ GetMut(t)
        \/ NewSeed(t)
        \/ NewLeech(t)
        \/ GetScrapes(t)
        \/ GetAnnounceStats(t)
        \/ Return(t) /\ NoHist

SpecStats == InitStats /\ [][NextStats]_vars

\* ------------------------------- put_seeder / put_leecher, arm by arm
\* match store.get_mut(&info_hash): the arm that is taken
store_get_mut(store, info_hash) == [some |-> info_hash \in DOMAIN store]

\* the Some(sw) arm adds to the swarm in the map, the None arm inserts a
\* swarm built from Swarm::new()
put_seeder_arm(store, info_hash, peer, arm) ==
    IF arm.some
    THEN [store EXCEPT ![info_hash] = Swarm_add_seeder(@, peer)]
    ELSE HashMap_insert(store, info_hash, Swarm_add_seeder(Swarm_new, peer))

put_leecher_arm(store, info_hash, peer, arm) ==
    IF arm.some
    THEN [store EXCEPT ![info_hash] = Swarm_add_leecher(@, peer)]
    ELSE HashMap_insert(store, info_hash, Swarm_add_leecher(Swarm_new, peer))

\* put_seeder / put_leecher under the write guard: the lookup of the swarm
Match(t) ==
    /\ pc[t] = "held"
    /\ call[t].op \in PutOps
    /\ found[t] = NoRecord
    /\ found' = [found EXCEPT ![t] = store_get_mut(records, call[t].info_hash)]
    /\ UNCHANGED <<records, pc, call, result, waitq, settled, torrents, swaitq,
                   applied, initial, owed>>

\* ... and the arm of the match, up to the return; the registration is
\* noted in the history
PutSeederArm(t) ==
    /\ found[t] # NoRecord
    /\ Body(t, "put_seeder",
            put_seeder_arm(records, call[t].info_hash, call[t].peer, found[t]),
            Unit)
    /\ found' = [found EXCEPT ![t] = NoRecord]
    /\ settled' = settled \cup {Key(call[t])}
    /\ UNCHANGED <<torrents, swaitq, applied, initial, owed>>

PutLeecherArm(t) ==
    /\ found[t] # NoRecord
    /\ Body(t, "put_leecher",
            put_leecher_arm(records, call[t].info_hash, call[t].peer, found[t]),
            Unit)
    /\ found' = [found EXCEPT ![t] = NoRecord]
    /\ settled' = settled \cup {Key(call[t])}
    /\ UNCHANGED <<torrents, swaitq, applied, initial, owed>>

\* the registrations the concurrent tasks make
RaceCalls == {Call(op, h, p, 0) : op \in PutOps, h \in Hashes, p \in Peer}

\* concurrent tasks registering peers, none of them removing any
NextRace ==
    \E t \in Tasks :
        \/ (\E c \in RaceCalls : Invoke(t, c)) /\ NoHist
        \/ Match(t)
        \/ PutSeederArm(t)
        \/ PutLeecherArm(t)
        \/ Return(t) /\ NoHist

SpecRace == Init /\ [][NextRace]_vars

\* the statistics call that goes with a registry call: new_leech with
\* put_leecher, new_seed with promote_leecher, none with the removals
PairedCall(c) ==
    CASE c.op = "put_leecher" -> Call("new_leech", c.info_hash, NoPeer, 0)
      [] c.op = "promote_leecher" -> Call("new_seed", c.info_hash, NoPeer, 0)
      [] OTHER -> NoCall

\* the membership changes a caller makes together with their statistics call
PairedCalls ==
    {Call(op, h, p, 0) :
        op \in {"put_leecher", "promote_leecher", "remove_seeder", "remove_leecher"},
        h \in Hashes, p \in ConcPeers}

\* the caller makes a registry call and owes the statistics call that goes
\* with it
InvokePaired(t, c) ==
    /\ owed[t] = NoCall
    /\ PairedCall(c) # NoCall => CallsMade < MaxCalls
    /\ Invoke(t, c)
    /\ owed' = [owed EXCEPT ![t] = PairedCall(c)]
    /\ UNCHANGED <<settled, torrents, swaitq, found, applied, initial>>

\* the registry call has returned: the caller makes the statistics call
InvokeOwed(t) ==
    /\ owed[t] # NoCall
    /\ StatInvoke(t, owed[t])
    /\ owed' = [owed EXCEPT ![t] = NoCall]

\* both stores start empty of peers: no swarm, and a record without seeders
\* or leechers for every hash
InitPaired ==
    /\ records = PeerStore_new
    /\ pc = [t \in Tasks |-> "idle"]
    /\ call = [t \in Tasks |-> NoCall]
    /\ result = [t \in Tasks |-> Unit]
    /\ waitq = <<>>
    /\ settled = {}
    /\ torrents = [h \in Hashes |-> Torrent_new(h, 0, 0, 0, 0)]
    /\ swaitq = <<>>
    /\ found = [t \in Tasks |-> NoRecord]
    /\ applied = [h \in Hashes |-> NoApplied]
    /\ initial = torrents
    /\ owed = [t \in Tasks |-> NoCall]

\* concurrent callers that follow each membership change by its statistics
\* call
NextPaired ==
    \E t \in Tasks :
        \/ \E c \in PairedCalls : InvokePaired(t, c)
        \/ PutLeecher(t) /\ NoHist
        \/ RemoveSeeder(t) /\ NoHist
        \/ RemoveLeecher(t) /\ NoHist
        \/ PromoteLeecher(t) /\ NoHist
        \/ InvokeOwed(t)
        \/ GetMut(t)
        \/ NewSeed(t)
        \/ NewLeech(t)
        \/ Return(t) /\ NoHist

SpecPaired == InitPaired /\ [][NextPaired]_vars

\* the HTTP requests that reach the announce handler: the query string's
\* fields and the remote address of the connection
AnnounceRequests ==
    {[op |-> "parse_announce", info_hash |-> h, peer_id |-> p.peer_id,
      port |-> p.port, left |-> l, event |-> e, numwant |-> n,
      remote |-> [fam |-> p.fam, ip |-> p.ip]] :
        h \in QueryHashes, p \in ConcPeers, l \in QueryLefts, e \in Events,
        n \in Numwants}

\* the handler answers one request: it runs from the parsing of the request
\* to the response without suspending
ParseAnnounce(t, req) ==
    /\ pc[t] = "idle"
    /\ \E r \in parse_announce(records, req) :
          /\ records' = r.store
          /\ result' = [result EXCEPT ![t] = r.response]
    /\ call' = [call EXCEPT ![t] = req]
    /\ pc' = [pc EXCEPT ![t] = "done"]
    /\ UNCHANGED <<waitq, settled, statvars>>

\* the stores the handler runs against: a TorrentStore with no record, or
\* with a record for the first hash
InitAnnounce ==
    /\ records = PeerStore_new
    /\ pc = [t \in Tasks |-> "idle"]
    /\ call = [t \in Tasks |-> NoCall]
    /\ result = [t \in Tasks |-> Unit]
    /\ waitq = <<>>
    /\ settled = {}
    /\ torrents \in {ts \in InitialTorrents : DOMAIN ts \subseteq HistHashes}
    /\ swaitq = <<>>
    /\ found = [t \in Tasks |-> NoRecord]
    /\ applied = [h \in Hashes |-> NoApplied]
    /\ initial = torrents
    /\ owed = [t \in Tasks |-> NoCall]

\* one task registers peers through the PeerStore and answers announces
NextAnnounce ==
    \/ (\E c \in Calls(Hashes, ConcPeers) : Invoke("t1", c)) /\ NoHist
    \/ PutSeeder("t1") /\ NoHist
    \/ PutLeecher("t1") /\ NoHist
    \/ RemoveSeeder("t1") /\ NoHist
    \/ RemoveLeecher("t1") /\ NoHist
    \/ PromoteLeecher("t1") /\ NoHist
    \/ UpdatePeer("t1") /\ NoHist
    \/ GetPeers("t1") /\ NoHist
    \/ Return("t1") /\ NoHist
    \/ \E req \in AnnounceRequests : ParseAnnounce("t1", req)

SpecAnnounce == InitAnnounce /\ [][NextAnnounce]_vars

TypeOK ==
    /\ DOMAIN records \subseteq Hashes
    /\ \A h \in DOMAIN records :
          /\ records[h].seeders \subseteq Peer
          /\ records[h].leechers \subseteq Peer
          /\ IsHashSet(records[h].seeders)
          /\ IsHashSet(records[h].leechers)
    /\ pc \in [Tasks -> {"idle", "wait", "held", "done"}]
    /\ \A t \in Tasks :
          pc[t] = "wait" <=> \E i \in 1..Len(waitq \o swaitq) : (waitq \o swaitq)[i] = t
    /\ \A t, u \in Holders : t # u => IsRead(call[t]) /\ IsRead(call[u])
    /\ waitq # <<>> => ~Compatible(call[Head(waitq)])
    /\ \A h \in DOMAIN torrents : torrents[h].info_hash = h
    /\ DOMAIN torrents = DOMAIN initial
    /\ \A t, u \in StatHolders :
          t # u => IsStatRead(call[t]) /\ IsStatRead(call[u])
    /\ swaitq # <<>> => ~StatCompatible(call[Head(swaitq)])
    /\ \A t \in Tasks :
          found[t] # NoRecord =>
              pc[t] = "held" /\ call[t].op \in StatWriteOps \cup PutOps

\* ------------------------------------------------------------- properties
\* task t's call of op has returned (and t has not yet started another)
Done(t, op) == pc[t] = "done" /\ call[t].op = op

\* this step is the body of task t's call of op
Ran(t, op) == pc[t] = "held" /\ call[t].op = op /\ pc'[t] = "done"

IdentsOf(set) == {Ident(q) : q \in set}

Known(h) == h \in DOMAIN records

Min(a, b) == IF a < b THEN a ELSE b

\* C1: in every reachable registry state, for every info-hash, no peer (by
\* identity) is in both the seeder set and the leecher set of that swarm.
C1_Exclusive ==
    \A h \in DOMAIN records :
        IdentsOf(records[h].seeders) \cap IdentsOf(records[h].leechers) = {}

\* C2: when put_seeder(H, P) has returned, P is in H's seeder set and absent
\* from H's leecher set.
C2_PutSeederPost ==
    \A t \in Tasks :
        Done(t, "put_seeder") =>
            /\ Known(call[t].info_hash)
            /\ HashSet_contains(records[call[t].info_hash].seeders, call[t].peer)
            /\ ~HashSet_contains(records[call[t].info_hash].leechers, call[t].peer)

\* C3: promote_leecher(H, P) on a known H leaves P in H's seeders and out of
\* H's leechers; the seeders gain exactly P, the leechers lose exactly P, and
\* no other swarm changes.
C3_PromoteMoves ==
    [][\A t \in Tasks :
          (Ran(t, "promote_leecher") /\ Known(call[t].info_hash)) =>
              LET h == call[t].info_hash
                  p == call[t].peer
              IN  /\ DOMAIN records' = DOMAIN records
                  /\ HashSet_contains(records'[h].seeders, p)
                  /\ ~HashSet_contains(records'[h].leechers, p)
                  /\ IdentsOf(records'[h].seeders)
                        = IdentsOf(records[h].seeders) \cup {Ident(p)}
                  /\ IdentsOf(records'[h].leechers)
                        = IdentsOf(records[h].leechers) \ {Ident(p)}
                  /\ \A g \in DOMAIN records \ {h} : records'[g] = records[g]
      ]_vars

\* a promote_leecher has returned that moved a stored leecher (its stored
\* last_announced differs from the argument's) beside another leecher
C3_Witness ==
    \E t \in Tasks :
        /\ Done(t, "promote_leecher")
        /\ Known(call[t].info_hash)
        /\ \E q \in records[call[t].info_hash].seeders :
              PeerEq(q, call[t].peer) /\ q # call[t].peer
        /\ records[call[t].info_hash].leechers # {}

\* C4: once promote_leecher(H, P) has returned, calling promote_leecher(H, P)
\* again leaves the registry exactly as the first call left it.
C4_PromoteIdempotent ==
    \A t \in Tasks :
        Done(t, "promote_leecher") =>
            promote_leecher(records, call[t].info_hash, call[t].peer) = records

\* a promote_leecher has returned on a known hash, with P now a seeder
C4_Witness ==
    \E t \in Tasks :
        /\ Done(t, "promote_leecher")
        /\ Known(call[t].info_hash)
        /\ HashSet_contains(records[call[t].info_hash].seeders, call[t].peer)
        /\ SwarmSize(records[call[t].info_hash]) = 2

RemovePost(t, present, after) ==
    IF present
    THEN /\ result'[t] = Bool(TRUE)
         /\ ~HashSet_contains(after, call[t].peer)
    ELSE /\ result'[t] = Bool(FALSE)
         /\ records' = records

\* C5: remove_seeder / remove_leecher of a peer that is not in the set, or of
\* an unknown hash, returns false and leaves the registry unchanged; of a peer
\* that is in the set, it returns true and the peer is absent afterwards.
C5_RemoveAbsent ==
    [][\A t \in Tasks :
          LET h == call[t].info_hash
              p == call[t].peer
          IN  /\ Ran(t, "remove_seeder") =>
                    RemovePost(t,
                        Known(h) /\ HashSet_contains(records[h].seeders, p),
                        IF h \in DOMAIN records' THEN records'[h].seeders ELSE {})
              /\ Ran(t, "remove_leecher") =>
                    RemovePost(t,
                        Known(h) /\ HashSet_contains(records[h].leechers, p),
                        IF h \in DOMAIN records' THEN records'[h].leechers ELSE {})
      ]_vars

\* a remove_seeder has returned false for a peer that is a leecher of the hash
C5_Witness ==
    \E t \in Tasks :
        /\ Done(t, "remove_seeder")
        /\ result[t] = Bool(FALSE)
        /\ Known(call[t].info_hash)
        /\ HashSet_contains(records[call[t].info_hash].leechers, call[t].peer)

PoolSize(h) == IF Known(h) THEN SwarmSize(records[h]) ELSE 0

\* the address/port projections of the peers of h's swarm
PoolAddrs(h, fam) ==
    IF Known(h)
    THEN {CompactAddr(CompactPeer(q)) :
             q \in {x \in records[h].seeders \cup records[h].leechers : x.fam = fam}}
    ELSE {}

Range(seq) == {seq[i] : i \in 1..Len(seq)}

\* C6: get_peers(H, numwant) returns lists whose combined length is
\* min(N, numwant), N the number of peers in H's swarm, and every entry is the
\* address/port projection of a peer of that swarm.
C6_GetPeersSize ==
    \A t \in Tasks :
        Done(t, "get_peers") =>
            LET h == call[t].info_hash
            IN  /\ Len(result[t].peers) + Len(result[t].peers6)
                      = Min(PoolSize(h), call[t].numwant)
                /\ Range(result[t].peers) \subseteq PoolAddrs(h, "V4")
                /\ Range(result[t].peers6) \subseteq PoolAddrs(h, "V6")

\* a get_peers has returned a sample smaller than the swarm
C6_Witness ==
    \E t \in Tasks :
        /\ Done(t, "get_peers")
        /\ call[t].numwant > 0
        /\ PoolSize(call[t].info_hash) > call[t].numwant
        /\ Len(result[t].peers) + Len(result[t].peers6) = call[t].numwant

NoRepeat(seq) == \A i, j \in 1..Len(seq) : i # j => seq[i] # seq[j]

\* C7: no address/port entry occurs twice in the IPv4 list or twice in the
\* IPv6 list that get_peers returns.
C7_NoDuplicates ==
    \A t \in Tasks :
        Done(t, "get_peers") =>
            NoRepeat(result[t].peers) /\ NoRepeat(result[t].peers6)

\* C8: get_peers leaves the registry as it was, and returns two empty lists
\* for an info-hash that has no swarm.
C8_GetPeersFrame ==
    [][\A t \in Tasks :
          Ran(t, "get_peers") =>
              /\ records' = records
              /\ ~Known(call[t].info_hash) =>
                    result'[t] = Peers([peers |-> <<>>, peers6 |-> <<>>])
      ]_vars

\* a get_peers on an unknown hash has returned while another hash has peers
C8_Witness ==
    \E t \in Tasks :
        /\ Done(t, "get_peers")
        /\ ~Known(call[t].info_hash)
        /\ call[t].numwant > 0
        /\ records # PeerStore_new
        /\ result[t] = Peers([peers |-> <<>>, peers6 |-> <<>>])

\* task t is suspended in read().await / write().await
Blocked(t) == pc[t] = "wait"

Ahead(u, t) ==
    \E i, j \in 1..Len(waitq) : i < j /\ waitq[i] = u /\ waitq[j] = t

C10_PutVisible ==
    [][\A t \in Tasks :
          (Ran(t, "get_peers") /\ call[t].numwant >= PoolSize(call[t].info_hash)) =>
              \A k \in settled :
                  k[1] = call[t].info_hash =>
                      [ip |-> k[2].ip, port |-> k[2].port] \in
                          IF k[2].fam = "V4"
                          THEN Range(result'[t].peers)
                          ELSE Range(result'[t].peers6)
      ]_vars

\* a get_peers that began after another task's put on the same hash had
\* returned has itself returned that peer, the other task being idle again
C10_Witness ==
    \E t, u \in Tasks :
        /\ t # u
        /\ Done(t, "get_peers")
        /\ Done(u, "put_leecher")
        /\ call[u].info_hash = call[t].info_hash
        /\ Key(call[u]) \in settled
        /\ call[t].numwant >= PoolSize(call[t].info_hash)
        /\ PoolSize(call[t].info_hash) = 2
        /\ CompactAddr(CompactPeer(call[u].peer)) \in
              Range(result[t].peers) \cup Range(result[t].peers6)

\* the values k increments and m saturating decrements of i can produce,
\* taken in every sequential order
RECURSIVE SeqResults(_, _, _)
SeqResults(i, k, m) ==
    IF k = 0 /\ m = 0 THEN {i}
    ELSE (IF k > 0 THEN SeqResults(i + 1, k - 1, m) ELSE {})
            \cup (IF m > 0 THEN SeqResults(saturating_sub_1(i), k, m - 1) ELSE {})

\* C11: whatever the interleaving of the new_leech and new_seed calls made on
\* an existing record, once k new_leech and m new_seed calls have been applied
\* its complete is the initial value plus m and its incomplete is a value
\* that k increments and m saturating decrements of the initial value produce
\* in some sequential order.
C11_NoLostUpdate ==
    \A h \in DOMAIN torrents :
        /\ torrents[h].complete = initial[h].complete + applied[h].seed
        /\ torrents[h].incomplete \in
              SeqResults(initial[h].incomplete, applied[h].leech, applied[h].seed)

\* the new_seed of one task and the new_leech of another have returned on
\* the same record, three calls are applied to it, and its incomplete counter
\* has been through a decrement at zero
C11_Witness ==
    \E t, u \in Tasks :
        /\ Done(t, "new_seed") /\ Done(u, "new_leech")
        /\ call[t].info_hash = call[u].info_hash
        /\ call[t].info_hash \in DOMAIN torrents
        /\ applied[call[t].info_hash].seed + applied[call[t].info_hash].leech = 3
        /\ torrents[call[t].info_hash].incomplete = 0

\* task t has answered an announce request
Announced(t) == pc[t] = "done" /\ call[t].op = "parse_announce"

\* ... and the request was parsed
AnnouncedOk(t) == Announced(t) /\ AnnounceRequest_new(call[t]).ok

\* this step is task t's handling of an announce request
Announces(t) ==
    pc[t] = "idle" /\ pc'[t] = "done" /\ call'[t].op = "parse_announce"

\* C12: the peers and peers6 lists of a successful announce response do not
\* hold the requesting peer's own address and port.
C12_NoSelf ==
    \A t \in Tasks :
        AnnouncedOk(t) =>
            CompactAddr(AnnounceRequest_new(call[t]).peer) \notin
                Range(result[t].body.peers) \cup Range(result[t].body.peers6)

\* C13: an announce whose request cannot be parsed is answered with status OK
\* and a dictionary whose single key is failure_reason, and leaves the
\* registry and the statistics store unchanged.
C13_MalformedFailure ==
    [][\A t \in Tasks :
          (Announces(t) /\ ~AnnounceRequest_new(call'[t]).ok) =>
              /\ result'[t].status = 200
              /\ DOMAIN result'[t].body = {"failure_reason"}
              /\ records' = records
              /\ torrents' = torrents
      ]_vars

\* a request without info_hash has been answered while the registry has a
\* swarm and the statistics store a record
C13_Witness ==
    \E t \in Tasks :
        /\ Announced(t)
        /\ call[t].info_hash = ""
        /\ records # PeerStore_new
        /\ torrents # TorrentStore_default
        /\ result[t].body = Failure("Malformed request")

InSeeders(h, p) == Known(h) /\ HashSet_contains(records[h].seeders, p)

InLeechers(h, p) == Known(h) /\ HashSet_contains(records[h].leechers, p)

\* C14: after a successful announce with event started or no event the peer
\* is a leecher of the hash when left > 0 and a seeder when left = 0; after
\* event completed it is a seeder and no leecher; after event stopped it is
\* in neither set.
C14_RoleStateMachine ==
    \A t \in Tasks :
        AnnouncedOk(t) =>
            LET r == AnnounceRequest_new(call[t])
            IN  /\ (r.event \in {"started", "none"} /\ r.left > 0)
                      => InLeechers(r.info_hash, r.peer)
                /\ (r.event \in {"started", "none"} /\ r.left = 0)
                      => InSeeders(r.info_hash, r.peer)
                /\ r.event = "completed"
                      => (InSeeders(r.info_hash, r.peer)
                            /\ ~InLeechers(r.info_hash, r.peer))
                /\ r.event = "stopped"
                      => (~InSeeders(r.info_hash, r.peer)
                            /\ ~InLeechers(r.info_hash, r.peer))

\* C15: complete and incomplete of a successful announce response are the
\* TorrentStore's counters for the announced hash, and zero when the store
\* has no record for it.
C15_ResponseCounters ==
    \A t \in Tasks :
        AnnouncedOk(t) =>
            /\ result[t].body.complete
                  = get_announce_stats(torrents, call[t].info_hash)[1]
            /\ result[t].body.incomplete
                  = get_announce_stats(torrents, call[t].info_hash)[2]

HasRecord(h) == h \in DOMAIN torrents

\* C16: get_scrapes returns, in request order, one entry for each requested
\* hash that has a record, with that record's complete, downloaded and
\* incomplete, omits the requested hashes without a record, and leaves the
\* store unchanged.
C16_ScrapeKnownOnly ==
    [][\A t \in Tasks :
          Ran(t, "get_scrapes") =>
              LET asked == SelectSeq(call[t].info_hashes, HasRecord)
                  files == result'[t].files
              IN  /\ torrents' = torrents
                  /\ Len(files) = Len(asked)
                  /\ \A i \in 1..Len(asked) :
                        /\ files[i].info_hash = asked[i]
                        /\ files[i].complete = torrents[asked[i]].complete
                        /\ files[i].downloaded = torrents[asked[i]].downloaded
                        /\ files[i].incomplete = torrents[asked[i]].incomplete
      ]_vars

\* a scrape of a hash without a record followed by a hash with one has
\* returned the single entry of the second, whose counters have moved since
\* the store was built
C16_Witness ==
    \E t \in Tasks :
        /\ Done(t, "get_scrapes")
        /\ Len(call[t].info_hashes) = 2
        /\ ~HasRecord(call[t].info_hashes[1])
        /\ HasRecord(call[t].info_hashes[2])
        /\ Len(result[t].files) = 1
        /\ result[t].files[1].info_hash = call[t].info_hashes[2]
        /\ result[t].files[1].complete > initial[call[t].info_hashes[2]].complete

\* C17: promote_leecher(H, P) on a hash without a swarm leaves the registry
\* unchanged, H staying unknown, whereas put_seeder(H, P) and put_leecher(H, P)
\* on a hash without a swarm create one for H that contains P.
C17_CreationAsymmetry ==
    [][\A t \in Tasks :
          LET h == call[t].info_hash
              p == call[t].peer
          IN  ~Known(h) =>
                /\ Ran(t, "promote_leecher") => records' = records
                /\ Ran(t, "put_seeder") =>
                      /\ DOMAIN records' = DOMAIN records \cup {h}
                      /\ records'[h] = [seeders |-> {p}, leechers |-> {}]
                /\ Ran(t, "put_leecher") =>
                      /\ DOMAIN records' = DOMAIN records \cup {h}
                      /\ records'[h] = [seeders |-> {}, leechers |-> {p}]
      ]_vars

\* a promote_leecher on a hash without a swarm has returned, the registry
\* holding a swarm for another hash only
C17_Witness ==
    \E t \in Tasks :
        /\ Done(t, "promote_leecher")
        /\ ~Known(call[t].info_hash)
        /\ records # PeerStore_new

\* no operation is in progress and no statistics call is owed
Quiescent == \A t \in Tasks : pc[t] = "idle" /\ owed[t] = NoCall

\* C18: when every membership change is followed by its statistics call, in
\* every quiescent state a record's complete is the size of its hash's seeder
\* set and its incomplete the size of the leecher set.
C18_CountersMatchMembership ==
    Quiescent =>
        \A h \in DOMAIN torrents :
            /\ torrents[h].complete
                  = IF Known(h) THEN Cardinality(records[h].seeders) ELSE 0
            /\ torrents[h].incomplete
                  = IF Known(h) THEN Cardinality(records[h].leechers) ELSE 0

\* C19: an info-hash gets a swarm entry only in a put_seeder or put_leecher
\* that names it, and an entry that exists still exists after every step,
\* also once remove_seeder / remove_leecher have emptied both of its sets.
C19_LazyNeverDeleted ==
    [][/\ DOMAIN records \subseteq DOMAIN records'
       /\ \A h \in DOMAIN records' \ DOMAIN records :
             \E t \in Tasks :
                 /\ Ran(t, "put_seeder") \/ Ran(t, "put_leecher")
                 /\ call[t].info_hash = h
      ]_vars

\* a remove_leecher has returned true and left the swarm of its hash with
\* both sets empty
C19_Witness ==
    \E t \in Tasks :
        /\ Done(t, "remove_leecher")
        /\ result[t] = Bool(TRUE)
        /\ Known(call[t].info_hash)
        /\ records[call[t].info_hash] = Swarm_new

\* C20: new_seed, new_leech, get_scrapes and get_announce_stats leave the set
\* of hashes with a record unchanged; new_seed / new_leech on a hash without
\* a record change nothing; and no call changes a record other than the one
\* of the hash it was called with.
C20_StatsFrame ==
    [][\A t \in Tasks :
          (\E op \in StatOps : Ran(t, op)) =>
              /\ DOMAIN torrents' = DOMAIN torrents
              /\ (call[t].op \in StatReadOps) => torrents' = torrents
              /\ (call[t].op \in StatWriteOps) =>
                    /\ ~HasRecord(call[t].info_hash) => torrents' = torrents
                    /\ \A h \in DOMAIN torrents \ {call[t].info_hash} :
                          torrents'[h] = torrents[h]
      ]_vars

\* a new_leech on a hash without a record has returned, the store holding
\* the record of another hash
C20_Witness ==
    \E t \in Tasks :
        /\ Done(t, "new_leech")
        /\ ~HasRecord(call[t].info_hash)
        /\ torrents # TorrentStore_default

\* C21: update_peer(H, P) leaves the identities in the seeder set and in the
\* leecher set of every swarm as they were; where a set of H holds P, the
\* stored record is P as given afterwards and the other records of the set
\* are untouched; and when H is unknown or P is in neither set the registry
\* is unchanged.
C21_UpdateKeepsMembership ==
    [][\A t \in Tasks :
          Ran(t, "update_peer") =>
              LET h == call[t].info_hash
                  p == call[t].peer
              IN  /\ DOMAIN records' = DOMAIN records
                  /\ \A g \in DOMAIN records :
                        /\ IdentsOf(records'[g].seeders) = IdentsOf(records[g].seeders)
                        /\ IdentsOf(records'[g].leechers) = IdentsOf(records[g].leechers)
                        /\ g # h => records'[g] = records[g]
                  /\ InSeeders(h, p) =>
                        records'[h].seeders = HashSet_remove(records[h].seeders, p) \cup {p}
                  /\ InLeechers(h, p) =>
                        records'[h].leechers = HashSet_remove(records[h].leechers, p) \cup {p}
                  /\ (~InSeeders(h, p) /\ ~InLeechers(h, p)) => records' = records
      ]_vars

\* an update_peer has returned that gave a stored leecher a later
\* last_announced, beside a seeder it left alone
C21_Witness ==
    \E t \in Tasks :
        /\ Done(t, "update_peer")
        /\ call[t].peer.last_announced = 1
        /\ Known(call[t].info_hash)
        /\ call[t].peer \in records[call[t].info_hash].leechers
        /\ \E q \in records[call[t].info_hash].seeders :
              ~PeerEq(q, call[t].peer) /\ q.last_announced = 0

\* ------------------------------------------- both stores, fairly scheduled
\* the calls the tasks make on the two stores
LivePeers == {p \in ConcPeers : p.fam = "V4"}

LiveCalls ==
    {Call(op, h, p, 0) : op \in PeerOps, h \in HistHashes, p \in LivePeers}
        \cup {Call("get_peers", h, NoPeer, MaxNumwant) : h \in HistHashes}

LiveStatCalls ==
    {Call(op, h, NoPeer, 0) : op \in StatWriteOps \cup {"get_announce_stats"},
                             h \in HistHashes}
        \cup {ScrapeCall(<<h>>) : h \in HistHashes}

\* what the runtime does when it polls task t inside a method: the method
\* runs on under its guard
Step(t) ==
    \/ PutSeeder(t) /\ NoHist
    \/ PutLeecher(t) /\ NoHist
    \/ RemoveSeeder(t) /\ NoHist
    \/ RemoveLeecher(t) /\ NoHist
    \/ PromoteLeecher(t) /\ NoHist
    \/ UpdatePeer(t) /\ NoHist
    \/ call[t].op = "get_peers" /\ GetPeers(t) /\ NoHist
    \/ GetMut(t)
    \/ NewSeed(t)
    \/ NewLeech(t)
    \/ GetScrapes(t)
    \/ GetAnnounceStats(t)

\* concurrent tasks calling the methods of both stores
NextLive ==
    \E t \in Tasks :
        \/ (\E c \in LiveCalls : Invoke(t, c)) /\ NoHist
        \/ (\E c \in LiveStatCalls : StatInvoke(t, c)) /\ UNCHANGED owed
        \/ PutSeeder(t) /\ NoHist
        \/ PutLeecher(t) /\ NoHist
        \/ RemoveSeeder(t) /\ NoHist
        \/ RemoveLeecher(t) /\ NoHist
        \/ PromoteLeecher(t) /\ NoHist
        \/ UpdatePeer(t) /\ NoHist
        \/ call[t].op = "get_peers" /\ GetPeers(t) /\ NoHist
        \/ GetMut(t)
        \/ NewSeed(t)
        \/ NewLeech(t)
        \/ GetScrapes(t)
        \/ GetAnnounceStats(t)
        \/ Return(t) /\ NoHist

\* the runtime polls every task that can run; a task is free not to make
\* another call
SpecLive ==
    InitPaired /\ [][NextLive]_vars /\ \A t \in Tasks : WF_vars(Step(t))

\* C22: when tasks call put_seeder / put_leecher concurrently, also for one
\* hash that has no swarm yet and with different peers, every peer whose put
\* has returned is in the set it was put into, and stays registered under
\* its hash: no task's freshly created swarm replaces another's.
C22_NoLostRegistration ==
    /\ \A t \in Tasks :
          /\ Done(t, "put_seeder") => InSeeders(call[t].info_hash, call[t].peer)
          /\ Done(t, "put_leecher") => InLeechers(call[t].info_hash, call[t].peer)
    /\ \A k \in settled :
          /\ Known(k[1])
          /\ k[2] \in IdentsOf(records[k[1]].seeders \cup records[k[1]].leechers)

\* both tasks have returned from puts of different peers on one hash that
\* was unknown before them, and its single swarm holds both peers, each in
\* the set it was put into
C22_Witness ==
    \E t, u \in Tasks :
        /\ Done(t, "put_seeder") /\ Done(u, "put_leecher")
        /\ call[t].info_hash = call[u].info_hash
        /\ ~PeerEq(call[t].peer, call[u].peer)
        /\ DOMAIN records = {call[t].info_hash}
        /\ records[call[t].info_hash]
              = [seeders |-> {call[t].peer}, leechers |-> {call[u].peer}]
        /\ settled = {Key(call[t]), Key(call[u])}

\* the lock a call takes: the registry's or the statistics store's
OnRegistry(t) == call[t].op \in PeerOps \cup {"get_peers"}

\* no task is stuck: a task inside a method can run on, a task waiting for a
\* lock waits in that lock's queue only, once, behind a task that holds a
\* guard of that same lock, and a task that has returned holds and awaits
\* nothing
NoDeadlock ==
    \A t \in Tasks :
        /\ pc[t] = "held" => ENABLED Step(t)
        /\ pc[t] = "wait" =>
              /\ Cardinality({i \in 1..Len(waitq \o swaitq) :
                                  (waitq \o swaitq)[i] = t}) = 1
              /\ IF OnRegistry(t)
                 THEN Holders # {} /\ \E i \in 1..Len(waitq) : waitq[i] = t
                 ELSE StatHolders # {} /\ \E i \in 1..Len(swaitq) : swaitq[i] = t
        /\ pc[t] \in {"done", "idle"} =>
              /\ t \notin Holders \cup StatHolders
              /\ \A i \in 1..Len(waitq \o swaitq) : (waitq \o swaitq)[i] # t

\* C23: with the tasks fairly scheduled, no reachable state is a deadlock (a
\* task in a method can always run on, and a waiting task always waits behind
\* a holder of the one lock its call takes), and every PeerStore or
\* TorrentStore call that was started eventually returns.
C23_DeadlockFreeAndComplete ==
    /\ []NoDeadlock
    /\ \A t \in Tasks : (pc[t] \in {"wait", "held"}) ~> (pc[t] = "done")

\* a registry call and a statistics call started by the two tasks have both
\* returned, each with its effect made, and neither lock has a holder or a
\* waiter left
C23_Witness ==
    \E t, u \in Tasks :
        /\ Done(t, "put_seeder")
        /\ InSeeders(call[t].info_hash, call[t].peer)
        /\ Done(u, "new_seed")
        /\ torrents[call[u].info_hash].complete = 1
        /\ Holders \cup StatHolders = {}
        /\ waitq \o swaitq = <<>>

====
